---- MODULE Spec2Model ----
(***************************************************************************)
(* Model of the HTTP layer of the Financial Data Analysis API (main.py):   *)
(* the request handlers, their try/except wrappers, and the sanitization   *)
(* pass convert_to_native_types that get_stock_analysis applies to the     *)
(* data records and to the insight bundle.                                 *)
(*                                                                         *)
(* Python values are modelled as tagged trees.  Every node is a record     *)
(*   [type, cls, v, s, keys, items]                                        *)
(* type  : the Python/numpy class of the object                            *)
(* cls   : for a floating leaf "fin", "nan", "inf" or "-inf", else ""      *)
(* v     : the numeric value of a finite float or an int; 0/1 for a bool   *)
(* s     : the text of a str leaf                                          *)
(* keys  : for a dict, its keys in insertion order                         *)
(* items : for a list its elements, for a dict the values by key position  *)
(***************************************************************************)
EXTENDS Integers, Sequences, FiniteSets, TLC

\* ---------------------------------------------------------------- bounds
\* Largest magnitude a 64-bit float holds, in model units.
MaxDouble == 1
\* Longest list / largest dict generated as analyzer output.
MaxLen == 2
\* Deepest nesting of containers generated as analyzer output.
MaxDepth == 2
\* Longest collector series.
MaxSamples == 2
\* Longest chatbot conversation history.
MaxHistory == 2

\* np.longdouble (80-bit extended on x86-64) reaches beyond the double range.
MaxLongDouble == MaxDouble + 1

\* ------------------------------------------------------- the type lattice
\* numpy's scalar hierarchy, as isinstance sees it.
NpFloating == {"np.float16", "np.float32", "np.float64", "np.longdouble"}
NpInteger == {"np.int32", "np.int64"}
\* isinstance(obj, float): float and its subclass np.float64.
IsFloat(obj) == obj.type \in {"float", "np.float64"}
\* isinstance(obj, int): int and its subclass bool.
IsInt(obj) == obj.type \in {"int", "bool"}
IsNpFloating(obj) == obj.type \in NpFloating
IsNpInteger(obj) == obj.type \in NpInteger
IsNpBool(obj) == obj.type = "np.bool_"
IsDict(obj) == obj.type = "dict"
IsList(obj) == obj.type = "list"

\* ------------------------------------------------------------ constructors
Node(t, c, n, str, ks, its) ==
    [type |-> t, cls |-> c, v |-> n, s |-> str, keys |-> ks, items |-> its]
None == Node("NoneType", "", 0, "", <<>>, <<>>)
StrV(str) == Node("str", "", 0, str, <<>>, <<>>)
BoolV(t, b) == Node(t, "", IF b THEN 1 ELSE 0, "", <<>>, <<>>)
IntV(t, n) == Node(t, "", n, "", <<>>, <<>>)
FloatV(t, c, n) == Node(t, c, n, "", <<>>, <<>>)
ListV(its) == Node("list", "", 0, "", <<>>, its)
DictV(ks, its) == Node("dict", "", 0, "", ks, its)

\* ------------------------------------------------------ numeric primitives
\* np.isnan(obj), np.isinf(obj)
isnan(obj) == obj.cls = "nan"
isinf(obj) == obj.cls \in {"inf", "-inf"}

\* float(obj): conversion to a native 64-bit float.  Exact for every width up
\* to 64 bits; a long double beyond the double range overflows to +-inf.
float(obj) ==
    IF obj.cls # "fin" THEN FloatV("float", obj.cls, 0)
    ELSE IF obj.v > MaxDouble THEN FloatV("float", "inf", 0)
    ELSE IF obj.v < -MaxDouble THEN FloatV("float", "-inf", 0)
    ELSE FloatV("float", "fin", obj.v)

\* int(obj): Python ints are unbounded, so every width converts exactly;
\* int(True) is 1 and int(False) is 0.
int(obj) == IntV("int", obj.v)

\* bool(obj) for a numpy boolean
bool(obj) == Node("bool", "", obj.v, "", <<>>, <<>>)

\* ------------------------------------------------ convert_to_native_types
RECURSIVE convert_to_native_types(_)
convert_to_native_types(obj) ==
    IF IsDict(obj)
      THEN DictV(obj.keys,
                [i \in 1..Len(obj.items) |-> convert_to_native_types(obj.items[i])])
    ELSE IF IsList(obj)
      THEN ListV([i \in 1..Len(obj.items) |-> convert_to_native_types(obj.items[i])])
    ELSE IF (IsNpFloating(obj) \/ IsFloat(obj)) /\ (isnan(obj) \/ isinf(obj))
      THEN None
    ELSE IF IsNpFloating(obj) \/ IsFloat(obj)
      THEN float(obj)
    ELSE IF IsNpInteger(obj) \/ IsInt(obj)
      THEN int(obj)
    ELSE IF IsNpBool(obj)
      THEN bool(obj)
    ELSE obj

\* --------------------------------------------- analyzer output, unsanitized
FloatTypes == {"float"} \cup NpFloating
FiniteRange(t) ==
    IF t = "np.longdouble" THEN 0..MaxLongDouble ELSE 0..MaxDouble
FloatLeaves ==
    {FloatV(t, c, 0) : t \in FloatTypes, c \in {"nan", "inf", "-inf"}}
      \cup UNION {{FloatV(t, "fin", n) : n \in FiniteRange(t)} : t \in FloatTypes}
      \cup {FloatV("np.longdouble", "fin", -MaxLongDouble)}
IntLeaves == {IntV(t, n) : t \in {"int"} \cup NpInteger, n \in {0, 1}}
BoolLeaves == {BoolV(t, b) : t \in {"bool", "np.bool_"}, b \in BOOLEAN}
StrLeaves == {StrV("up"), StrV("unavailable")}
Leaves == FloatLeaves \cup IntLeaves \cup BoolLeaves \cup StrLeaves \cup {None}

\* Elements that fill a container next to the element under study.
Siblings == {FloatV("np.float64", "nan", 0)}
DictKeys == <<"trend", "volatility", "rsi", "anomalies">>

\* Sequences of length n with one position drawn from S, the rest from Siblings.
SeqsAround(S, n) ==
    UNION {{[i \in 1..n |-> IF i = p THEN x ELSE f[i]] :
              x \in S, f \in [1..n -> Siblings]} : p \in 1..n}

\* One more level of nesting over the trees in S.
Grow(S) ==
    LET seqs == UNION {SeqsAround(S, n) : n \in 1..MaxLen}
    IN  S \cup {ListV(<<>>), DictV(<<>>, <<>>)}
          \cup {ListV(q) : q \in seqs}
          \cup {DictV(SubSeq(DictKeys, 1, Len(q)), q) : q \in seqs}

RECURSIVE TreesOver(_, _)
TreesOver(S, d) == IF d = 0 THEN S ELSE TreesOver(Grow(S), d - 1)
Trees(d) == TreesOver(Leaves, d)

\* ------------------------------------------------------- HTTP responses
\* The JSON body of a response; fields a handler does not set stay empty.
\* (The "timestamp" field, datetime.now(), is left out: time is not modelled.)
EmptyBody == [symbol |-> "", data |-> <<>>, insights |-> None, text |-> <<>>]

\* raise HTTPException(status_code=..., detail=...)
HTTPException(status_code, detail) ==
    [http |-> TRUE, status |-> status_code, detail |-> detail]
\* Any other exception, raised inside a collaborator.
CollaboratorError == [http |-> FALSE, status |-> 0, detail |-> <<"collaborator error">>]

StatusText(status_code) ==
    CASE status_code = 404 -> "404"
      [] status_code = 500 -> "500"
      [] OTHER -> "?"
\* str(e): starlette renders an HTTPException as "<status>: <detail>".
StrOfException(e) ==
    IF e.http THEN <<StatusText(e.status), ": ">> \o e.detail ELSE e.detail

\* The outcome of a try body: it returned a body, or an exception left it.
Returned(body) == [raised |-> FALSE, exc |-> CollaboratorError, value |-> body]
Raised(e) == [raised |-> TRUE, exc |-> e, value |-> EmptyBody]

\* try: <body> / except Exception as e: raise HTTPException(500, prefix + str(e)).
\* HTTPException derives from Exception, so one raised in the body is caught too.
TryExcept(outcome, prefix) ==
    IF outcome.raised
      THEN [status |-> 500, detail |-> <<prefix>> \o StrOfException(outcome.exc),
            body |-> EmptyBody]
      ELSE [status |-> 200, detail |-> <<>>, body |-> outcome.value]

\* What a handler did: its response, the collaborator calls it made in order,
\* and the chatbot's conversation history after it.
Handled(response, calls, hist) ==
    [response |-> response, calls |-> calls, history |-> hist]

\* --------------------------------------------------- DataFrame to records
Timestamps == <<"2024-01-01 00:00:00", "2024-01-02 00:00:00",
                "2024-01-03 00:00:00", "2024-01-04 00:00:00">>

\* data_dict.where(data_dict.notna(), None): pandas versions differ on whether
\* a float column keeps NaN or takes None; keepsNaN selects the outcome.
WhereNotNa(value, keepsNaN) ==
    IF isnan(value) /\ ~keepsNaN THEN None ELSE value

\* copy / index.strftime / where(notna, None) / reset_index / to_dict("records")
ToRecords(samples, keepsNaN) ==
    [i \in 1..Len(samples) |->
        DictV(<<"index", "Close", "Volume">>,
              <<StrV(Timestamps[i]),
                WhereNotNa(samples[i].close, keepsNaN),
                samples[i].volume>>)]

\* ------------------------------------------------------------ the handlers
\* Each handler takes the request, the outcomes its collaborator calls have
\* (co), and the chatbot's conversation history, the one module-level object
\* whose state the handlers can observe.

\* @app.get("/")
root(request, co, hist) ==
    Handled([status |-> 200, detail |-> <<>>,
             body |-> [EmptyBody EXCEPT !.text = <<"Financial Data Analysis API",
                                                   "1.0.0", "active">>]],
            <<>>, hist)

\* get_stock_data with a series of no rows answered like a missing symbol.
get_stock_data_empty_as_missing(request, co, hist) ==
    LET body ==
          IF co.fetch = "raise" THEN Raised(CollaboratorError)
          ELSE IF co.fetch = "none" \/ co.samples = <<>>
            THEN Raised(HTTPException(404, <<"No data found for symbol ", request.symbol>>))
          ELSE Returned([EmptyBody EXCEPT
                           !.symbol = request.symbol,
                           !.data = ToRecords(co.samples, co.keepsNaN)])
    IN  Handled(TryExcept(body, "Error fetching stock data: "),
                <<"get_stock_data">>, hist)

\* @app.post("/api/stock/data")
get_stock_data(request, co, hist) ==
    LET body ==
          IF co.fetch = "raise" THEN Raised(CollaboratorError)
          ELSE IF co.fetch = "none"
            THEN Raised(HTTPException(404, <<"No data found for symbol ", request.symbol>>))
          ELSE Returned([EmptyBody EXCEPT
                           !.symbol = request.symbol,
                           !.data = ToRecords(co.samples, co.keepsNaN)])
    IN  Handled(TryExcept(body, "Error fetching stock data: "),
                <<"get_stock_data">>, hist)

\* get_stock_analysis rejecting a bundle in which an indicator is unavailable.
get_stock_analysis_strict(request, co, hist) ==
    LET data_dict == ToRecords(co.samples, co.keepsNaN)
        body ==
          IF co.fetch = "raise" THEN Raised(CollaboratorError)
          ELSE IF co.fetch = "none"
            THEN Raised(HTTPException(404, <<"No data found for symbol ", request.symbol>>))
          ELSE IF co.analysis = "raise" THEN Raised(CollaboratorError)
          ELSE IF \E i \in 1..Len(co.insights.items) :
                     co.insights.items[i] = StrV("unavailable")
            THEN Raised(CollaboratorError)
          ELSE Returned([EmptyBody EXCEPT
                           !.symbol = request.symbol,
                           !.data = [i \in 1..Len(data_dict) |->
                                        convert_to_native_types(data_dict[i])],
                           !.insights = convert_to_native_types(co.insights)])
    IN  Handled(TryExcept(body, "Error generating analysis: "),
                IF co.fetch = "series"
                  THEN <<"get_stock_data", "generate_insights">>
                  ELSE <<"get_stock_data">>, hist)

\* @app.post("/api/stock/analysis")
get_stock_analysis(request, co, hist) ==
    LET fetched == <<"get_stock_data">>
        analysed == <<"get_stock_data", "generate_insights">>
        data_dict == ToRecords(co.samples, co.keepsNaN)
        body ==
          IF co.fetch = "raise" THEN Raised(CollaboratorError)
          ELSE IF co.fetch = "none"
            THEN Raised(HTTPException(404, <<"No data found for symbol ", request.symbol>>))
          ELSE IF co.analysis = "raise" THEN Raised(CollaboratorError)
          ELSE Returned([EmptyBody EXCEPT
                           !.symbol = request.symbol,
                           !.data = [i \in 1..Len(data_dict) |->
                                        convert_to_native_types(data_dict[i])],
                           !.insights = convert_to_native_types(co.insights)])
    IN  Handled(TryExcept(body, "Error generating analysis: "),
                IF co.fetch = "series" THEN analysed ELSE fetched, hist)

\* @app.post("/api/crypto/data")
get_crypto_data(request, co, hist) ==
    LET body ==
          IF co.fetch = "raise" THEN Raised(CollaboratorError)
          ELSE IF co.fetch = "none"
            THEN Raised(HTTPException(404, <<"No data found for crypto symbol ",
                                             request.symbol>>))
          ELSE Returned([EmptyBody EXCEPT
                           !.symbol = request.symbol,
                           !.data = [i \in 1..Len(co.samples) |-> co.samples[i].close]])
    IN  Handled(TryExcept(body, "Error fetching crypto data: "),
                <<"get_crypto_data">>, hist)

\* chatbot.process_query records the query in the chatbot's conversation
\* history; chatbot.get_conversation_history returns that history.
chatbot_process_query(hist, query) == Append(hist, query)
chatbot_get_conversation_history(hist) == hist

\* The response a query handler that echoes the conversation so far would give.
process_query_with_context(request, co, hist) ==
    LET body ==
          IF co.chat = "raise" THEN Raised(CollaboratorError)
          ELSE Returned([EmptyBody EXCEPT
                           !.symbol = request.symbol,
                           !.text = hist \o <<request.query, co.reply>>])
    IN  Handled(TryExcept(body, "Error processing query: "),
                <<"process_query">>,
                IF co.chat = "raise" THEN hist
                ELSE chatbot_process_query(hist, request.query))

\* @app.post("/api/query")
process_query(request, co, hist) ==
    LET body ==
          IF co.chat = "raise" THEN Raised(CollaboratorError)
          ELSE Returned([EmptyBody EXCEPT
                           !.symbol = request.symbol,
                           !.text = <<request.query, co.reply>>])
    IN  Handled(TryExcept(body, "Error processing query: "),
                <<"process_query">>,
                IF co.chat = "raise" THEN hist
                ELSE chatbot_process_query(hist, request.query))

\* @app.get("/api/conversation/history")
get_conversation_history(request, co, hist) ==
    LET body ==
          IF co.chat = "raise" THEN Raised(CollaboratorError)
          ELSE Returned([EmptyBody EXCEPT
                           !.text = chatbot_get_conversation_history(hist)])
    IN  Handled(TryExcept(body, "Error fetching conversation history: "),
                <<"get_conversation_history">>, hist)

\* send_email_report without the "if not success" check.
send_email_report_unchecked(request, co, hist) ==
    LET c1 == <<"get_stock_data">>
        c2 == Append(c1, "generate_insights")
        c3 == Append(c2, "create_market_summary")
        c4 == Append(c3, "send_report")
        ran ==
          IF co.fetch = "raise" THEN <<Raised(CollaboratorError), c1>>
          ELSE IF co.analysis = "raise" THEN <<Raised(CollaboratorError), c2>>
          ELSE IF co.summary = "raise" THEN <<Raised(CollaboratorError), c3>>
          ELSE IF co.send = "raise" THEN <<Raised(CollaboratorError), c4>>
          ELSE <<Returned([EmptyBody EXCEPT
                             !.text = <<"success", "Report sent to ", request.email>>]),
                 c4>>
    IN  Handled(TryExcept(ran[1], "Error generating report: "), ran[2], hist)

\* @app.post("/api/reports/email")
send_email_report(request, co, hist) ==
    LET c1 == <<"get_stock_data">>
        c2 == Append(c1, "generate_insights")
        c3 == Append(c2, "create_market_summary")
        c4 == Append(c3, "send_report")
        ran ==
          IF co.fetch = "raise" THEN <<Raised(CollaboratorError), c1>>
          ELSE IF co.analysis = "raise" THEN <<Raised(CollaboratorError), c2>>
          ELSE IF co.summary = "raise" THEN <<Raised(CollaboratorError), c3>>
          ELSE IF co.send = "raise" THEN <<Raised(CollaboratorError), c4>>
          ELSE IF co.send # "true"
            THEN <<Raised(HTTPException(500, <<"Failed to send email report">>)), c4>>
          ELSE <<Returned([EmptyBody EXCEPT
                             !.text = <<"success", "Report sent to ", request.email>>]),
                 c4>>
    IN  Handled(TryExcept(ran[1], "Error generating report: "), ran[2], hist)

\* @app.post("/api/reports/schedule")
schedule_email_report(request, co, hist) ==
    LET body ==
          IF co.schedule = "raise" THEN Raised(CollaboratorError)
          ELSE Returned([EmptyBody EXCEPT
                           !.text = <<"success", "Scheduled report for ",
                                      request.symbol>>])
    IN  Handled(TryExcept(body, "Error scheduling report: "),
                <<"schedule_report">>, hist)

\* FastAPI routing: the handler registered for the request's endpoint.
Dispatch(request, co, hist) ==
    CASE request.endpoint = "stock_data" -> get_stock_data(request, co, hist)
      [] request.endpoint = "stock_analysis" -> get_stock_analysis(request, co, hist)
      [] request.endpoint = "crypto_data" -> get_crypto_data(request, co, hist)
      [] request.endpoint = "query" -> process_query(request, co, hist)
      [] request.endpoint = "history" -> get_conversation_history(request, co, hist)
      [] request.endpoint = "email" -> send_email_report(request, co, hist)
      [] request.endpoint = "schedule" -> schedule_email_report(request, co, hist)
      [] OTHER -> root(request, co, hist)

\* ------------------------------------------------- collaborator outcomes
\* The collaborators (collector, analyzer, chatbot, email service) are not
\* part of main.py; what a call to one of them can produce is enumerated here.
Symbols == {"AAPL", "ZZZZ"}
Emails == {"user@example.com"}
Queries == {"what is the trend?"}
Replies == {"the trend is up"}

NoOutcome ==
    [fetch |-> "", samples |-> <<>>, keepsNaN |-> FALSE,
     analysis |-> "", failed |-> {}, insights |-> None,
     summary |-> "", send |-> "", chat |-> "", reply |-> "", schedule |-> ""]

\* collector.get_stock_data: a series (possibly empty), None, or an exception.
\* The latest close may still be missing (NaN); earlier closes are present.
Closes == {FloatV("np.float64", "fin", 1), FloatV("np.float64", "nan", 0)}
Sample(c) == [close |-> c, volume |-> IntV("np.int64", 1)]
Series ==
    {<<>>} \cup {[i \in 1..n |-> Sample(IF i = n THEN c ELSE FloatV("np.float64", "fin", 1))] :
                   n \in 1..MaxSamples, c \in Closes}
FetchOutcomes ==
    {[NoOutcome EXCEPT !.fetch = "raise"], [NoOutcome EXCEPT !.fetch = "none"]}
      \cup {[NoOutcome EXCEPT !.fetch = "series", !.samples = s] : s \in Series}

\* analyzer.generate_insights: the Insight Assembler.  Each indicator yields
\* a value, "insufficient data", or, when it fails, "unavailable"; a
\* structural error raises.  On an empty series every indicator reports
\* "insufficient data".
Indicators == <<"trend", "volatility", "rsi">>
Unavailable == StrV("unavailable")
InsufficientData == StrV("insufficient data")
Computed ==
    {<<StrV("up"), FloatV("np.float64", "fin", 1), FloatV("np.float64", "fin", 1)>>,
     <<StrV("flat"), FloatV("np.float64", "nan", 0), InsufficientData>>}
Bundle(results, failed) ==
    DictV(Indicators,
          [i \in 1..Len(Indicators) |->
              IF Indicators[i] \in failed THEN Unavailable ELSE results[i]])
AllInsufficient == Bundle([i \in 1..Len(Indicators) |-> InsufficientData], {})
IndicatorSet == {Indicators[i] : i \in 1..Len(Indicators)}
generate_insights(co) ==
    IF co.fetch = "series" /\ co.samples = <<>>
      THEN {[co EXCEPT !.analysis = "bundle", !.insights = AllInsufficient]}
    ELSE IF co.fetch = "series"
      THEN {[co EXCEPT !.analysis = "raise"]}
             \cup {[co EXCEPT !.analysis = "bundle", !.failed = f,
                              !.insights = Bundle(r, f)] :
                      r \in Computed, f \in SUBSET IndicatorSet}
    ELSE {[co EXCEPT !.analysis = "raise"],
          [co EXCEPT !.analysis = "bundle", !.insights = AllInsufficient]}

\* The outcomes of where(notna, None) that differ on the fetched series.
HasNaN(co) == \E i \in 1..Len(co.samples) : isnan(co.samples[i].close)
WhereOutcomes(co) == IF HasNaN(co) THEN BOOLEAN ELSE {FALSE}

\* What get_stock_analysis can meet: the analyzer is reached only with a series.
AnalysisOutcomes ==
    {co \in FetchOutcomes : co.fetch # "series"}
      \cup UNION {{[a EXCEPT !.keepsNaN = k] : a \in generate_insights(co), k \in WhereOutcomes(co)} :
                    co \in {c \in FetchOutcomes : c.fetch = "series"}}

\* What send_email_report can meet; it does not read the fetched series, so
\* the empty series and one non-empty series stand for all.
EmailFetches ==
    {co \in FetchOutcomes : co.fetch # "series" \/ (Len(co.samples) <= 1 /\ ~HasNaN(co))}
EmailOutcomes ==
    {co \in EmailFetches : co.fetch = "raise"}
      \cup UNION {
        {a \in generate_insights(co) : a.analysis = "raise"}
          \cup UNION {
            {[a EXCEPT !.summary = "raise"]}
              \cup {[a EXCEPT !.summary = "ok", !.send = s] : s \in {"true", "false", "raise"}} :
            a \in {b \in generate_insights(co) : b.analysis = "bundle"}} :
        co \in {c \in EmailFetches : c.fetch # "raise"}}

ChatOutcomes ==
    {[NoOutcome EXCEPT !.chat = "raise"]}
      \cup {[NoOutcome EXCEPT !.chat = "ok", !.reply = r] : r \in Replies}
HistoryOutcomes ==
    {[NoOutcome EXCEPT !.chat = "raise"], [NoOutcome EXCEPT !.chat = "ok"]}
ScheduleOutcomes ==
    {[NoOutcome EXCEPT !.schedule = "raise"], [NoOutcome EXCEPT !.schedule = "ok"]}

\* ------------------------------------------------------------------ state
VARIABLES
    insights,       \* what analyzer.generate_insights returned (a dict)
    sanitized,      \* convert_to_native_types(insights), the response field
    resanitized,    \* convert_to_native_types applied to its own output
    passes,         \* how many times the pass has run
    request,        \* the request handled last: endpoint and parameters
    collab,         \* the outcomes of the collaborator calls made for it
    response,       \* the HTTP response it got
    calls,          \* the collaborator calls its handler made, in order
    history         \* chatbot: the process-wide conversation history

cvars == <<insights, sanitized, resanitized, passes>>
hvars == <<request, collab, response, calls, history>>
vars == <<insights, sanitized, resanitized, passes,
          request, collab, response, calls, history>>

NoRequest == [endpoint |-> "", symbol |-> "", email |-> "", query |-> ""]
NoResponse == [status |-> 0, detail |-> <<>>, body |-> EmptyBody]

\* --------------------------------------------------- sanitization, alone
InitConvert ==
    /\ insights \in {t \in Trees(MaxDepth) : IsDict(t)}
    /\ sanitized = None
    /\ resanitized = None
    /\ passes = 0
    /\ request = NoRequest
    /\ collab = NoOutcome
    /\ response = NoResponse
    /\ calls = <<>>
    /\ history = <<>>

\* insights = convert_to_native_types(insights)
Sanitize ==
    /\ passes = 0
    /\ sanitized' = convert_to_native_types(insights)
    /\ passes' = 1
    /\ UNCHANGED <<insights, resanitized>>
    /\ UNCHANGED hvars

\* the pass applied to its own output
SanitizeAgain ==
    /\ passes = 1
    /\ resanitized' = convert_to_native_types(sanitized)
    /\ passes' = 2
    /\ UNCHANGED <<insights, sanitized>>
    /\ UNCHANGED hvars

NextConvert == Sanitize \/ SanitizeAgain

SpecConvert == InitConvert /\ [][NextConvert]_vars

\* ------------------------------------------------------- the HTTP service
\* The handlers are coroutines without an await, so the event loop runs each
\* to completion: concurrent requests are handled one whole handler at a time,
\* in any order.
Init ==
    /\ insights = None
    /\ sanitized = None
    /\ resanitized = None
    /\ passes = 0
    /\ request = NoRequest
    /\ collab = NoOutcome
    /\ response = NoResponse
    /\ calls = <<>>
    /\ history = <<>>

Serve(req, co, done) ==
    /\ request' = req
    /\ collab' = co
    /\ response' = done.response
    /\ calls' = done.calls
    /\ history' = done.history
    /\ UNCHANGED cvars

Root ==
    LET req == [NoRequest EXCEPT !.endpoint = "root"]
    IN  Serve(req, NoOutcome, root(req, NoOutcome, history))

GetStockData ==
    \E sym \in Symbols, co \in FetchOutcomes : \E k \in WhereOutcomes(co) :
        LET req == [NoRequest EXCEPT !.endpoint = "stock_data", !.symbol = sym]
            got == [co EXCEPT !.keepsNaN = k]
        IN  Serve(req, got, get_stock_data(req, got, history))

GetStockAnalysis ==
    \E sym \in Symbols, co \in AnalysisOutcomes :
        LET req == [NoRequest EXCEPT !.endpoint = "stock_analysis", !.symbol = sym]
        IN  Serve(req, co, get_stock_analysis(req, co, history))

GetCryptoData ==
    \E sym \in Symbols, co \in FetchOutcomes :
        LET req == [NoRequest EXCEPT !.endpoint = "crypto_data", !.symbol = sym]
        IN  Serve(req, co, get_crypto_data(req, co, history))

ProcessQuery ==
    /\ Len(history) < MaxHistory
    /\ \E sym \in Symbols, q \in Queries, co \in ChatOutcomes :
        LET req == [NoRequest EXCEPT !.endpoint = "query", !.symbol = sym, !.query = q]
        IN  Serve(req, co, process_query(req, co, history))

GetConversationHistory ==
    \E co \in HistoryOutcomes :
        LET req == [NoRequest EXCEPT !.endpoint = "history"]
        IN  Serve(req, co, get_conversation_history(req, co, history))

SendEmailReport ==
    \E sym \in Symbols, e \in Emails, co \in EmailOutcomes :
        LET req == [NoRequest EXCEPT !.endpoint = "email", !.symbol = sym, !.email = e]
        IN  Serve(req, co, send_email_report(req, co, history))

ScheduleEmailReport ==
    \E sym \in Symbols, e \in Emails, co \in ScheduleOutcomes :
        LET req == [NoRequest EXCEPT !.endpoint = "schedule", !.symbol = sym, !.email = e]
        IN  Serve(req, co, schedule_email_report(req, co, history))

Next ==
    \/ Root
    \/ GetStockData
    \/ GetStockAnalysis
    \/ GetCryptoData
    \/ ProcessQuery
    \/ GetConversationHistory
    \/ SendEmailReport
    \/ ScheduleEmailReport

Spec == Init /\ [][Next]_vars

\* ================================================================ claims
IsContainer(t) == IsDict(t) \/ IsList(t)
IsFloating(t) == t.type \in FloatTypes
IsInteger(t) == t.type \in {"int"} \cup NpInteger
IsNumpy(t) == t.type \in NpFloating \cup NpInteger \cup {"np.bool_"}
\* The kind of a leaf that is not a number.
Kind(t) == IF t.type \in {"bool", "np.bool_"} THEN "boolean" ELSE t.type
IsNonNumeric(t) == t.type \in {"str", "NoneType", "bool", "np.bool_"}

\* No floating leaf of the tree is NaN or an infinity.
RECURSIVE FiniteOrNull(_)
FiniteOrNull(t) ==
    IF IsContainer(t)
      THEN \A i \in 1..Len(t.items) : FiniteOrNull(t.items[i])
      ELSE IsFloating(t) => t.cls = "fin"

\* out is raw with every finite floating leaf a native float of the same
\* value, every integer leaf a native int of the same value, and no numpy type
\* left.
RECURSIVE Canonical(_, _)
Canonical(raw, out) ==
    IF IsContainer(raw)
      THEN /\ out.type = raw.type
           /\ Len(out.items) = Len(raw.items)
           /\ \A i \in 1..Len(raw.items) : Canonical(raw.items[i], out.items[i])
      ELSE /\ (IsFloating(raw) /\ raw.cls = "fin") => out = FloatV("float", "fin", raw.v)
           /\ IsInteger(raw) => out = IntV("int", raw.v)
           /\ ~IsNumpy(out)

\* out has raw's shape, and raw's non-numeric leaves with value and kind kept.
RECURSIVE FramePreserved(_, _)
FramePreserved(raw, out) ==
    IF IsContainer(raw)
      THEN /\ out.type = raw.type
           /\ out.keys = raw.keys
           /\ Len(out.items) = Len(raw.items)
           /\ \A i \in 1..Len(raw.items) : FramePreserved(raw.items[i], out.items[i])
      ELSE IsNonNumeric(raw) =>
              /\ Kind(out) = Kind(raw)
              /\ out.v = raw.v
              /\ out.s = raw.s

\* C1: after the sanitization pass the insights of the response hold no NaN
\* and no infinity: every floating leaf is finite or has become null.
C1_InsightsFiniteOrNull == passes >= 1 => FiniteOrNull(sanitized)

\* C2: when the collector returns None, get_stock_data, get_stock_analysis and
\* get_crypto_data answer 404 with a "No data found for ..." detail.
C2_NotFoundIs404 ==
    (request.endpoint \in {"stock_data", "stock_analysis", "crypto_data"}
        /\ collab.fetch = "none")
      => /\ response.status = 404
         /\ Len(response.detail) >= 1
         /\ response.detail[1] \in {"No data found for symbol ",
                                    "No data found for crypto symbol "}

\* C3: a series that was found but has no samples gets a successful response
\* with an empty data list from get_stock_data and get_stock_analysis, and a
\* symbol that was not found never gets a successful response.
C3_EmptySeriesIsSuccess ==
    request.endpoint \in {"stock_data", "stock_analysis"} =>
        /\ (collab.fetch = "series" /\ collab.samples = <<>>) =>
              /\ response.status = 200
              /\ response.body.data = <<>>
              /\ response.body.symbol = request.symbol
        /\ collab.fetch = "none" => response.status # 200
C3_Witness ==
    /\ request.endpoint = "stock_data"
    /\ collab.fetch = "series"
    /\ collab.samples = <<>>
    /\ response.status = 200

\* C4: when exactly one indicator fails, get_stock_analysis still answers
\* successfully; the failed indicator is marked unavailable and every other
\* indicator is present with its own result.
C4_PartialFailureIsolated ==
    (request.endpoint = "stock_analysis" /\ collab.analysis = "bundle"
        /\ Cardinality(collab.failed) = 1)
      => /\ response.status = 200
         /\ response.body.insights.keys = Indicators
         /\ \A i \in 1..Len(Indicators) :
              LET raw == collab.insights.items[i]
                  out == response.body.insights.items[i]
              IN  IF Indicators[i] \in collab.failed
                    THEN out = Unavailable
                    ELSE /\ out # Unavailable
                         /\ raw.type = "str" => out = raw
                         /\ (IsFloating(raw) /\ raw.cls = "fin") =>
                               out = FloatV("float", "fin", raw.v)
C4_Witness ==
    /\ request.endpoint = "stock_analysis"
    /\ collab.failed = {"volatility"}
    /\ response.status = 200
    /\ response.body.insights.items =
          <<StrV("up"), Unavailable, FloatV("float", "fin", 1)>>

\* C5: what any request returns is what its handler returns for the same
\* parameters and collaborator outcomes in a process that handled no other
\* request.
C5_NoRequestDependsOnOthers ==
    request.endpoint # "" => response = Dispatch(request, collab, <<>>).response
\* C5, amended: that holds of every endpoint but get_conversation_history,
\* which returns the history the earlier process_query requests left.
C5_AllButHistoryIndependent ==
    (request.endpoint # "" /\ request.endpoint # "history")
      => response = Dispatch(request, collab, <<>>).response
C5_Witness ==
    /\ request.endpoint = "query"
    /\ response.status = 200
    /\ Len(history) = 2

\* C6: the pass leaves every finite floating leaf of any width a native float
\* of the same value, every integer leaf a native int of the same value, and
\* no numpy type in the tree.
C6_CanonicalAnyWidth == passes >= 1 => Canonical(insights, sanitized)

\* C7: applying the pass to its own output changes nothing.
C7_PassIsIdempotent == passes = 2 => resanitized = sanitized

\* C8: send_email_report answers with the success message exactly when
\* send_report was called and returned true; in every other case the
\* response is a 500 without the success message.
C8_SuccessOnlyAfterSend ==
    request.endpoint = "email" =>
        IF response.status = 200
          THEN /\ collab.send = "true"
               /\ Len(calls) >= 1 /\ calls[Len(calls)] = "send_report"
               /\ response.body.text = <<"success", "Report sent to ", request.email>>
          ELSE /\ collab.send # "true"
               /\ response.status = 500
               /\ response.body.text = <<>>
C8_Witness ==
    /\ request.endpoint = "email"
    /\ collab.send = "false"
    /\ response.status = 500
    /\ calls = <<"get_stock_data", "generate_insights",
                 "create_market_summary", "send_report">>

\* C9: the pass keeps every dict's keys, every list's length and order, and
\* every non-numeric leaf (string, boolean, null) with its value and kind.
C9_OnlyNumericLeavesChange == passes >= 1 => FramePreserved(insights, sanitized)

\* C10: in get_stock_analysis and send_email_report a None from the collector
\* ends the request: no collaborator is called after get_stock_data.
C10_NotFoundStopsRequest ==
    (request.endpoint \in {"stock_analysis", "email"} /\ collab.fetch = "none")
      => calls = <<"get_stock_data">>
====
